---- MODULE Spec2Model ----
(***************************************************************************)
(* A model of app.py: the resumable translation loop over a gettext        *)
(* catalog (main), the translation invoker (translate_string) and the      *)
(* progress file (load_progress / save_progress).                          *)
(*                                                                         *)
(* Text is a sequence of characters.  An ASCII character is the one-       *)
(* character string itself; a non-ASCII character is named by its code     *)
(* point ("U+00E9" is e-acute, "U+00C9" its capital, "U+4F60" a CJK        *)
(* letter).  Indices of catalog entries are 0-based as in the code; entry  *)
(* i of a catalog c is c[i + 1].                                           *)
(***************************************************************************)
EXTENDS Integers, Sequences, FiniteSets, TLC

VARIABLES
    inputCat,        \* disk: the input catalog file (po_file_path), parsed
    backend,         \* environment: which backend the run talks to
    config,          \* environment: what this run found and was told at startup
    outFile,         \* disk: the output catalog file (translated_file_name)
    progFile,        \* disk: the progress file's text, or NoFile
    pc,              \* position of the process in main()
    po,              \* memory: the catalog object loaded by polib.pofile
    starting_index,  \* memory: progress.get("index", 0)
    i,               \* memory: loop index of enumerate(po)
    forms,           \* memory: plural indices still to iterate for entry i
    called,          \* history: entries the backend was invoked for, this run
    classified,      \* history: entries the classifier looked at, this run
    formCalls,       \* history: backend invocations made for entry i
    prevEnd,         \* history: how the previous run ended
    prevOut,         \* history: the output file as the previous run left it
    prevCalled,      \* history: entries the previous run invoked the backend for
    writes,          \* history: files opened for writing for the entry in hand
    stored,          \* history: index last dumped to the progress file, or -1
    written,         \* history: index last dumped by this run, or -1
    t_text,          \* function harness: the argument (a text, a path)
    t_outcome,       \* function harness: what the backend does
    t_result,        \* function harness: what the call produced
    t_pc             \* function harness: position

vars == <<inputCat, backend, config, outFile, progFile, pc, po,
          starting_index, i, forms, called, classified, formCalls, prevEnd,
          prevOut, prevCalled, writes, stored, written,
          t_text, t_outcome, t_result, t_pc>>

harnessVars == <<t_text, t_outcome, t_result, t_pc>>

----------------------------------------------------------------------------
(* Bounds of the model *)

\* longest catalog explored by Spec
MaxEntries == 2
\* longest source identifier explored by SpecClassify
MaxMsgidLen == 3
\* most fragments a backend response is built of in SpecTranslate
MaxFrags == 2
\* SpecProgress: the largest index saved
MaxIndex == 12
\* SpecPath: the longest input path
MaxPathLen == 6

----------------------------------------------------------------------------
(* Characters and the str / re primitives the code uses *)

Lowers == <<"a","b","c","d","e","f","g","h","i","j","k","l","m",
            "n","o","p","q","r","s","t","u","v","w","x","y","z">>
Uppers == <<"A","B","C","D","E","F","G","H","I","J","K","L","M",
            "N","O","P","Q","R","S","T","U","V","W","X","Y","Z">>

\* the character class [a-zA-Z] of the three regular expressions
IsAsciiLetter(c) == \E n \in 1..26 : c = Lowers[n] \/ c = Uppers[n]

\* letters outside ASCII (Unicode category L)
NonAsciiLetters == {"U+00E9", "U+00C9", "U+4F60"}

\* a letter character, ASCII or not
IsLetter(c) == IsAsciiLetter(c) \/ c \in NonAsciiLetters

\* what str.strip() removes
Whitespace == {" ", "\n", "\t"}

\* str.lower() on one character
LowerChar(c) ==
    IF \E n \in 1..26 : c = Uppers[n]
    THEN Lowers[CHOOSE n \in 1..26 : c = Uppers[n]]
    ELSE IF c = "U+00C9" THEN "U+00E9" ELSE c

\* str.upper() on one character (the uppercasing backend of the tests)
UpperChar(c) ==
    IF \E n \in 1..26 : c = Lowers[n]
    THEN Uppers[CHOOSE n \in 1..26 : c = Lowers[n]]
    ELSE IF c = "U+00E9" THEN "U+00C9" ELSE c

Lower(s) == [n \in 1..Len(s) |-> LowerChar(s[n])]
Upper(s) == [n \in 1..Len(s) |-> UpperChar(s[n])]

RECURSIVE LStrip(_)
LStrip(s) == IF s # <<>> /\ Head(s) \in Whitespace THEN LStrip(Tail(s)) ELSE s

RECURSIVE RStrip(_)
RStrip(s) ==
    IF s # <<>> /\ s[Len(s)] \in Whitespace
    THEN RStrip(SubSeq(s, 1, Len(s) - 1)) ELSE s

\* str.strip()
Strip(s) == RStrip(LStrip(s))

\* sub in s
Contains(s, sub) ==
    \E n \in 1..(Len(s) - Len(sub) + 1) : SubSeq(s, n, n + Len(sub) - 1) = sub

\* s.startswith("#")
StartsWithHash(s) == s # <<>> /\ s[1] = "#"

\* re.match(r"^[^a-zA-Z]*$", s): the class also consumes a newline, so the
\* match succeeds exactly when no character of s is in [a-zA-Z]
MatchNoAsciiLetters(s) == \A n \in 1..Len(s) : ~IsAsciiLetter(s[n])

\* re.match(r"^%[a-zA-Z]*$", s): '%', then letters, then the end of the
\* string or (Python's $) a single newline that ends the string
MatchBarePlaceholder(s) ==
    /\ s # <<>>
    /\ s[1] = "%"
    /\ \E e \in {Len(s), Len(s) - 1} :
        /\ e >= 1
        /\ \A n \in 2..e : IsAsciiLetter(s[n])
        /\ e < Len(s) => s[Len(s)] = "\n"

\* re.search(r"[a-zA-Z]", s)
SearchAsciiLetter(s) == \E n \in 1..Len(s) : IsAsciiLetter(s[n])

----------------------------------------------------------------------------
(* translate_string *)

\* the two refusal phrases of the validation
NoNeedPhrase == <<"n","o"," ","n","e","e","d"," ","t","o"," ","b","e"," ",
                  "c","o","r","r","e","c","t","e","d">>
ReferencePhrase == <<"r","e","f","e","r","e","n","c","e"," ","t","o">>

\* the condition of the `if` that rejects a response
InvalidTranslation(translation) ==
    \/ Contains(Lower(translation), NoNeedPhrase)
    \/ Contains(Lower(translation), ReferencePhrase)
    \/ MatchNoAsciiLetters(translation)

Returned(s) == [raised |-> FALSE, value |-> s]
Raised == [raised |-> TRUE, value |-> <<>>]

OnRateLimit_Propagates(text) == Raised

\* what the except clause for RateLimitError returns
OnRateLimit(text) == Returned(text)

OnOpenAIError_Empty(text) == Returned(<<>>)

OnOpenAIError_Propagates(text) == Raised

\* what the except clause for OpenAIError returns
OnOpenAIError(text) == Returned(text)

\* An outcome is what openai.ChatCompletion.create does for one call:
\*   "ok"           it returns a response whose first choice has `content`
\*   "malformed"    it returns a response with no choice, or one whose message
\*                  has no text content: the indexing / .strip() raises
\*                  IndexError, KeyError or AttributeError
\*   "ratelimit"    it raises openai.error.RateLimitError
\*   "openai_error" it raises another openai.error.OpenAIError
\* target_language and context only shape the prompt sent to the backend;
\* what comes back is the outcome, so they are not parameters here.
translate_string(text, outcome) ==
    CASE outcome.kind = "ok" ->
            LET translation == Strip(outcome.content)
            IN  IF InvalidTranslation(translation)
                THEN Returned(text)
                ELSE Returned(translation)
      [] outcome.kind = "ratelimit" -> OnRateLimit(text)
      [] outcome.kind = "openai_error" -> OnOpenAIError(text)
      [] outcome.kind = "malformed" -> Raised

----------------------------------------------------------------------------
(* The catalog: polib entries *)

\* a file on disk: absent, or present with a content
NoFile == [exists |-> FALSE, content |-> <<>>]
File(content) == [exists |-> TRUE, content |-> content]

Singular(id) ==
    [msgid |-> id, msgid_plural |-> <<>>, msgstr |-> <<>>,
     msgstr_plural |-> <<>>]

\* msgstr_plural is a dict from plural index to text; `keys` are its indices
Plural(id, idp, keys) ==
    [msgid |-> id, msgid_plural |-> idp, msgstr |-> <<>>,
     msgstr_plural |-> [k \in keys |-> <<>>]]

S_Hello == <<"H","e","l","l","o">>
S_Placeholder == <<"%","d">>
S_Comment == <<"#","#","#","c","o","m","m","e","n","t","-","o","n","l","y",
               "#","#","#">>
S_OneFile == <<"1"," ","f","i","l","e">>
S_Files == <<"%","d"," ","f","i","l","e","s">>
S_Item == <<"i","t","e","m">>
S_HashItems == <<"#"," ","i","t","e","m","s">>

\* the entries the catalogs of Spec are made of
EntryPool ==
    { Singular(S_Hello), Singular(S_Placeholder), Singular(S_Comment),
      Plural(S_OneFile, S_Files, {0, 1}),
      Plural(S_Item, S_HashItems, {0, 1}) }

RECURSIVE SeqsUpTo(_, _)
SeqsUpTo(S, n) ==
    IF n = 0 THEN {<<>>}
    ELSE LET shorter == SeqsUpTo(S, n - 1)
         IN  shorter \cup {Append(q, x) : q \in shorter, x \in S}

Catalogs == SeqsUpTo(EntryPool, MaxEntries)

\* sorted(entry.msgstr_plural.keys())
RECURSIVE SortedSeq(_)
SortedSeq(S) ==
    IF S = {} THEN <<>>
    ELSE LET m == CHOOSE x \in S : \A y \in S : x <= y
         IN  <<m>> \o SortedSeq(S \ {m})

SortedKeys(entry) == SortedSeq(DOMAIN entry.msgstr_plural)

----------------------------------------------------------------------------
(* The progress file: json.dump / json.load of {"index": n} *)

Digit == <<"0","1","2","3","4","5","6","7","8","9">>

RECURSIVE Decimal(_)
Decimal(n) ==
    IF n < 10 THEN <<Digit[n + 1]>>
    ELSE Decimal(n \div 10) \o <<Digit[(n % 10) + 1]>>

IsDigit(c) == \E d \in 1..10 : Digit[d] = c
DigitValue(c) == (CHOOSE d \in 1..10 : Digit[d] = c) - 1

RECURSIVE ParseDecimal(_)
ParseDecimal(s) ==
    IF s = <<>> THEN 0
    ELSE 10 * ParseDecimal(SubSeq(s, 1, Len(s) - 1)) + DigitValue(s[Len(s)])

JsonPrefix == <<"{", "\"", "i","n","d","e","x", "\"", ":", " ">>
JsonSuffix == <<"}">>

JsonDump_LastDigit(current_index) ==
    JsonPrefix \o <<Digit[(current_index % 10) + 1]>> \o JsonSuffix

\* json.dump({"index": current_index}, file)
JsonDump(current_index) == JsonPrefix \o Decimal(current_index) \o JsonSuffix

\* the text is the JSON object {"index": <digits>}
IsProgressJson(text) ==
    /\ Len(text) > Len(JsonPrefix) + Len(JsonSuffix)
    /\ SubSeq(text, 1, Len(JsonPrefix)) = JsonPrefix
    /\ text[Len(text)] = "}"
    /\ \A n \in (Len(JsonPrefix) + 1)..(Len(text) - 1) : IsDigit(text[n])

\* load_progress followed by progress.get("index", 0): no file gives {} and
\* so 0; a file json.load cannot parse (the empty file a killed save_progress
\* leaves) raises json.JSONDecodeError
load_progress(file) ==
    IF ~file.exists THEN [raised |-> FALSE, index |-> 0]
    ELSE IF IsProgressJson(file.content)
    THEN [raised |-> FALSE,
          index |-> ParseDecimal(SubSeq(file.content, Len(JsonPrefix) + 1,
                                        Len(file.content) - 1))]
    ELSE [raised |-> TRUE, index |-> 0]

----------------------------------------------------------------------------
(* The backend, as the loop sees it *)

S_Refusal == <<"R","e","f","e","r","e","n","c","e"," ","t","o"," ","i","t">>

Ok(content) == [kind |-> "ok", content |-> content]
RateLimit == [kind |-> "ratelimit", content |-> <<>>]
OpenAIError == [kind |-> "openai_error", content |-> <<>>]
Malformed == [kind |-> "malformed", content |-> <<>>]

\* the backends a run may talk to: "upper" is the deterministic mock that
\* answers every text with its uppercase; "remote" is the real service,
\* which may answer anything or fail
Backends == {"upper", "remote"}

\* what backend `b` may do when asked to translate `text`; "faulty" is the
\* real service as long as its responses are well formed
BackendOutcomes(b, text) ==
    CASE b = "upper" -> {Ok(Upper(text))}
      [] b = "faulty" -> {Ok(Upper(text)), Ok(S_Refusal), RateLimit,
                          OpenAIError}
      [] OTHER -> {Ok(Upper(text)), Ok(S_Refusal), RateLimit, OpenAIError,
                   Malformed}

----------------------------------------------------------------------------
(* main: the configuration read at startup *)

S_Key == <<"s", "k">>
S_French == <<"F", "r">>
S_Jobs == <<"j", "o", "b", "s">>

Config(key, language, context, found) ==
    [api_key |-> key, target_language |-> language, context |-> context,
     po_exists |-> found]

\* what a run may find in the environment and be told at the prompts
Configs ==
    {Config(key, language, context, found) :
        key \in {<<>>, S_Key}, language \in {<<" ">>, S_French},
        context \in {<<>>, S_Jobs}, found \in BOOLEAN}

ConfigError_IgnoresContext(c) ==
    \/ c.api_key = <<>>
    \/ Strip(c.target_language) = <<>>
    \/ ~c.po_exists

\* the four checks that end main() before the catalog is loaded
ConfigError(c) ==
    \/ c.api_key = <<>>
    \/ Strip(c.target_language) = <<>>
    \/ Strip(c.context) = <<>>
    \/ ~c.po_exists

----------------------------------------------------------------------------
(* main: the loop *)

AlreadyProcessed_OffByOne(index, start) == index + 1 < start

AlreadyProcessed_Never(index, start) == FALSE

\* `if i < starting_index: continue`
AlreadyProcessed(index, start) == index < start

\* the skip condition of the classifier, on a non-empty msgid
NonTranslatable(msgid) ==
    \/ StartsWithHash(Strip(msgid))
    \/ MatchNoAsciiLetters(msgid)
    \/ MatchBarePlaceholder(msgid)
    \/ ~SearchAsciiLetter(msgid)

\* `if entry.msgid:` and not skipped
Eligible(entry) == entry.msgid # <<>> /\ ~NonTranslatable(entry.msgid)

SourceText_AlwaysSingular(entry, idx) == entry.msgid

\* source_text = entry.msgid if idx == 0 else entry.msgid_plural
SourceText(entry, idx) == IF idx = 0 THEN entry.msgid ELSE entry.msgid_plural

\* a plural form is skipped when its source text starts with '#'
FormSkipped(entry, idx) == StartsWithHash(Strip(SourceText(entry, idx)))

Entry == po[i + 1]
Dead == {"idle", "aborted", "killed", "crashed", "done"}
Running == {"loop", "singular", "plural", "save_open", "save_dump", "po_save"}

\* the process is gone: its memory with it
Exit(how) ==
    /\ pc' = how
    /\ po' = <<>>
    /\ starting_index' = 0
    /\ i' = 0
    /\ forms' = <<>>

\* main() is started: the configuration is read and checked, then
\* polib.pofile(po_file_path), load_progress and progress.get("index", 0).
\* `remember` says whether the history variables about the previous run are
\* kept (they are in SpecResume only).
Begin(remember) ==
    /\ pc \in Dead
    /\ config' \in Configs
    /\ written' = -1
    /\ prevEnd' = IF remember /\ pc # "idle" THEN pc ELSE "none"
    /\ prevOut' = IF remember THEN outFile ELSE NoFile
    /\ prevCalled' = IF remember THEN called ELSE {}
    /\ called' = {}
    /\ classified' = {}
    /\ formCalls' = <<>>
    /\ writes' = <<>>
    /\ LET progress == load_progress(progFile)
       IN  CASE ConfigError(config') -> Exit("aborted")
             [] OTHER ->
                   IF progress.raised
                   THEN Exit("crashed")
                   ELSE /\ pc' = "loop"
                        /\ po' = inputCat
                        /\ starting_index' = progress.index
                        /\ i' = 0
                        /\ forms' = <<>>
    /\ UNCHANGED <<inputCat, backend, outFile, progFile, stored, harnessVars>>

Start == Begin(FALSE)

StartRemembering == Begin(TRUE)

\* the for loop is exhausted: the summary is printed and main returns
Finish ==
    /\ pc = "loop"
    /\ i >= Len(po)
    /\ pc' = "done"
    /\ formCalls' = <<>>
    /\ writes' = <<>>
    /\ UNCHANGED <<inputCat, backend, config, outFile, progFile, po,
                   starting_index, i, forms, called, classified, prevEnd,
                   prevOut, prevCalled, stored, written, harnessVars>>

\* `if i < starting_index: continue`
SkipProcessed ==
    /\ pc = "loop"
    /\ i < Len(po)
    /\ AlreadyProcessed(i, starting_index)
    /\ i' = i + 1
    /\ formCalls' = <<>>
    /\ writes' = <<>>
    /\ UNCHANGED <<inputCat, backend, config, outFile, progFile, pc, po,
                   starting_index, forms, called, classified, prevEnd,
                   prevOut, prevCalled, stored, written, harnessVars>>

SkipEntry_Checkpoints ==
    /\ pc = "loop"
    /\ i < Len(po)
    /\ ~AlreadyProcessed(i, starting_index)
    /\ ~Eligible(Entry)
    /\ classified' = classified \cup {i}
    /\ pc' = "save_open"
    /\ formCalls' = <<>>
    /\ writes' = <<>>
    /\ UNCHANGED <<inputCat, backend, config, outFile, progFile, i, po,
                   starting_index, forms, called, prevEnd, prevOut,
                   prevCalled, stored, written, harnessVars>>

\* the classifier skips the entry: empty msgid, comment, no letter, placeholder
SkipEntry ==
    /\ pc = "loop"
    /\ i < Len(po)
    /\ ~AlreadyProcessed(i, starting_index)
    /\ ~Eligible(Entry)
    /\ classified' = classified \cup {i}
    /\ i' = i + 1
    /\ formCalls' = <<>>
    /\ writes' = <<>>
    /\ UNCHANGED <<inputCat, backend, config, outFile, progFile, pc, po,
                   starting_index, forms, called, prevEnd, prevOut,
                   prevCalled, stored, written, harnessVars>>

\* the classifier lets the entry through: "Translating line ..."
BeginEntry ==
    /\ pc = "loop"
    /\ i < Len(po)
    /\ ~AlreadyProcessed(i, starting_index)
    /\ Eligible(Entry)
    /\ classified' = classified \cup {i}
    /\ formCalls' = <<>>
    /\ writes' = <<>>
    /\ IF Entry.msgid_plural # <<>>
       THEN pc' = "plural" /\ forms' = SortedKeys(Entry)
       ELSE pc' = "singular" /\ forms' = <<>>
    /\ UNCHANGED <<inputCat, backend, config, outFile, progFile, po,
                   starting_index, i, called, prevEnd, prevOut, prevCalled,
                   stored, written, harnessVars>>

\* one call of translate_string from the loop, for form `idx` (-1: msgstr),
\* and the assignment of its result; an exception it raises ends main()
Invoke(idx, text, outcome, next) ==
    LET r == translate_string(text, outcome)
    IN  /\ called' = called \cup {i}
        /\ formCalls' = Append(formCalls,
                               [form |-> idx, text |-> text,
                                kind |-> outcome.kind, ret |-> r.value])
        /\ IF r.raised
           THEN Exit("crashed")
           ELSE /\ pc' = next
                /\ po' = [po EXCEPT ![i + 1] =
                            IF idx = -1
                            THEN [@ EXCEPT !.msgstr = r.value]
                            ELSE [@ EXCEPT !.msgstr_plural[idx] = r.value]]
                /\ forms' = IF idx = -1 THEN forms ELSE Tail(forms)
                /\ UNCHANGED <<starting_index, i>>

\* entry.msgstr = translate_string(entry.msgid, ...)
TranslateSingular ==
    /\ pc = "singular"
    /\ \E outcome \in BackendOutcomes(backend, Entry.msgid) :
           Invoke(-1, Entry.msgid, outcome, "save_open")
    /\ UNCHANGED <<inputCat, backend, config, outFile, progFile, classified,
                   writes, prevEnd, prevOut, prevCalled, stored, written,
                   harnessVars>>

\* one iteration of `for idx in sorted(entry.msgstr_plural.keys())`
TranslateForm ==
    /\ pc = "plural"
    /\ forms # <<>>
    /\ ~FormSkipped(Entry, Head(forms))
    /\ \E outcome \in BackendOutcomes(backend,
                                      SourceText(Entry, Head(forms))) :
           Invoke(Head(forms), SourceText(Entry, Head(forms)), outcome,
                  "plural")
    /\ UNCHANGED <<inputCat, backend, config, outFile, progFile, classified,
                   writes, prevEnd, prevOut, prevCalled, stored, written,
                   harnessVars>>

\* a plural form whose source text starts with '#': `continue`
SkipForm ==
    /\ pc = "plural"
    /\ forms # <<>>
    /\ FormSkipped(Entry, Head(forms))
    /\ forms' = Tail(forms)
    /\ UNCHANGED <<inputCat, backend, config, outFile, progFile, pc, po,
                   starting_index, i, called, classified, formCalls, writes,
                   prevEnd, prevOut, prevCalled, stored, written, harnessVars>>

EndForms_AtAnyForm ==
    /\ pc = "plural"
    /\ pc' = "save_open"
    /\ UNCHANGED <<inputCat, backend, config, outFile, progFile, po,
                   starting_index, i, forms, called, classified, formCalls,
                   writes, prevEnd, prevOut, prevCalled, stored, written,
                   harnessVars>>

\* the plural loop is exhausted
EndForms ==
    /\ pc = "plural"
    /\ forms = <<>>
    /\ pc' = "save_open"
    /\ UNCHANGED <<inputCat, backend, config, outFile, progFile, po,
                   starting_index, i, forms, called, classified, formCalls,
                   writes, prevEnd, prevOut, prevCalled, stored, written,
                   harnessVars>>

\* save_progress: open(progress_path, 'w') truncates the file
SaveProgressOpen ==
    /\ pc = "save_open"
    /\ progFile' = File(<<>>)
    /\ pc' = "save_dump"
    /\ writes' = Append(writes, "progress")
    /\ UNCHANGED <<inputCat, backend, config, outFile, po, starting_index, i,
                   forms, called, classified, formCalls, prevEnd, prevOut,
                   prevCalled, stored, written, harnessVars>>

\* save_progress: json.dump({"index": current_index}, file), and the close
SaveProgressDump ==
    /\ pc = "save_dump"
    /\ progFile' = File(JsonDump(i))
    /\ pc' = "po_save"
    /\ stored' = i
    /\ written' = i
    /\ UNCHANGED <<inputCat, backend, config, outFile, po, starting_index, i,
                   forms, called, classified, formCalls, writes, prevEnd,
                   prevOut, prevCalled, harnessVars>>

\* po.save(translated_file_name), then the next iteration.  The save is one
\* call into polib: the whole in-memory catalog replaces the output file.
PoSave ==
    /\ pc = "po_save"
    /\ outFile' = File(po)
    /\ pc' = "loop"
    /\ i' = i + 1
    /\ writes' = Append(writes, "catalog")
    /\ UNCHANGED <<inputCat, backend, config, progFile, po, starting_index,
                   forms, called, classified, formCalls, prevEnd, prevOut,
                   prevCalled, stored, written, harnessVars>>

\* the process is killed from outside, wherever it is
Kill ==
    /\ pc \in Running
    /\ Exit("killed")
    /\ formCalls' = <<>>
    /\ writes' = <<>>
    /\ UNCHANGED <<inputCat, backend, config, outFile, progFile, called,
                   classified, prevEnd, prevOut, prevCalled, stored, written,
                   harnessVars>>

\* the steps of a running process
Run ==
    \/ Finish
    \/ SkipProcessed
    \/ SkipEntry
    \/ BeginEntry
    \/ TranslateSingular
    \/ TranslateForm
    \/ SkipForm
    \/ EndForms
    \/ SaveProgressOpen
    \/ SaveProgressDump
    \/ PoSave

\* the steps of a running process, and its death
Step == Run \/ Kill

HarnessOff ==
    /\ t_text = <<>>
    /\ t_outcome = RateLimit
    /\ t_result = Returned(<<>>)
    /\ t_pc = "off"

LoopInit(catalogs, backends) ==
    /\ inputCat \in catalogs
    /\ backend \in backends
    /\ config = Config(S_Key, S_French, S_Jobs, TRUE)
    /\ writes = <<>>
    /\ stored = -1
    /\ written = -1
    /\ outFile = NoFile
    /\ progFile = NoFile
    /\ pc = "idle"
    /\ po = <<>>
    /\ starting_index = 0
    /\ i = 0
    /\ forms = <<>>
    /\ called = {}
    /\ classified = {}
    /\ formCalls = <<>>
    /\ prevEnd = "none"
    /\ prevOut = NoFile
    /\ prevCalled = {}

\* Spec: any number of runs over a catalog, each run completing, crashing or
\* being killed at any point
Init == LoopInit(Catalogs, Backends) /\ HarnessOff

Next == Start \/ Step

Spec == Init /\ [][Next]_vars

\* SpecResume: the same, remembering at each start how the previous run ended
NextResume == StartRemembering \/ Step

SpecResume == Init /\ [][NextResume]_vars

\* SpecLive: runs that are left alone (never killed) and whose backend
\* answers every call with a well-formed response or an error of the
\* openai package; a started run keeps taking steps
LiveCatalogs ==
    SeqsUpTo({Singular(S_Hello), Singular(S_Placeholder),
              Plural(S_Item, S_HashItems, {0, 1})}, MaxEntries)

InitLive == LoopInit(LiveCatalogs, {"faulty"}) /\ HarnessOff

NextLive == Start \/ Run

SpecLive == InitLive /\ [][NextLive]_vars /\ WF_vars(Run)

----------------------------------------------------------------------------
(* SpecClassify: catalogs of an entry with any short source identifier,    *)
(* followed by an ordinary entry, run against the uppercasing backend      *)

MsgidAlphabet == {"a", "%", "#", " ", "1", "\n", "U+00E9"}

Msgids == SeqsUpTo(MsgidAlphabet, MaxMsgidLen)

ClassifyCatalogs ==
    {<<Singular(m), Singular(S_Hello)>> : m \in Msgids}
        \cup {<<Plural(m, p, {0, 1}), Singular(S_Hello)>> :
                 m \in Msgids, p \in {S_Files, S_HashItems}}

InitClassify == LoopInit(ClassifyCatalogs, {"upper"}) /\ HarnessOff

SpecClassify == InitClassify /\ [][Next]_vars

----------------------------------------------------------------------------
(* SpecTranslate: translate_string on its own, over built-up responses *)

S_Padded == <<" ","H","i"," ">>
S_Ola == <<"O","l","a">>
S_RefTo == <<"R","e","f","e","r","e","n","c","e"," ","T","o">>
S_Reference == <<"r","e","f","e","r","e","n","c","e">>
S_To == <<" ","t","o">>
S_NoNeed == <<"N","O"," ","N","E","E","D"," ","T","O"," ","B","E"," ",
              "C","O","R","R","E","C","T","E","D">>

\* the pieces backend responses are concatenated from
Fragments ==
    { S_Ola, S_RefTo, S_Reference, S_To, S_NoNeed, <<"!">>, <<"4","2">>,
      <<" ">>, <<"\n">>, <<"U+00E9">>, <<"U+00C9">>, <<"U+4F60">> }

RECURSIVE Concats(_, _)
Concats(S, n) ==
    IF n = 0 THEN {<<>>}
    ELSE LET shorter == Concats(S, n - 1)
         IN  shorter \cup {q \o x : q \in shorter, x \in S}

Responses == Concats(Fragments, MaxFrags)

HarnessTexts == {S_Hello, S_Padded, S_Files}

HarnessOutcomes ==
    {Ok(r) : r \in Responses} \cup {RateLimit, OpenAIError, Malformed}

LoopOff ==
    /\ inputCat = <<>>
    /\ backend = "remote"
    /\ config = Config(S_Key, S_French, S_Jobs, TRUE)
    /\ writes = <<>>
    /\ stored = -1
    /\ written = -1
    /\ outFile = NoFile
    /\ progFile = NoFile
    /\ pc = "off"
    /\ po = <<>>
    /\ starting_index = 0
    /\ i = 0
    /\ forms = <<>>
    /\ called = {}
    /\ classified = {}
    /\ formCalls = <<>>
    /\ prevEnd = "none"
    /\ prevOut = NoFile
    /\ prevCalled = {}

InitTranslate ==
    /\ LoopOff
    /\ t_text \in HarnessTexts
    /\ t_outcome \in HarnessOutcomes
    /\ t_result = Returned(<<>>)
    /\ t_pc = "ready"

\* translate_string(t_text, ...) is called and returns normally
TranslateReturns ==
    /\ t_pc = "ready"
    /\ ~translate_string(t_text, t_outcome).raised
    /\ t_result' = translate_string(t_text, t_outcome)
    /\ t_pc' = "returned"
    /\ UNCHANGED <<inputCat, backend, config, outFile, progFile, pc, po,
                   starting_index, i, forms, called, classified, formCalls,
                   writes, prevEnd, prevOut, prevCalled, stored, written,
                   t_text, t_outcome>>

\* translate_string(t_text, ...) is called and an exception leaves it
TranslateRaises ==
    /\ t_pc = "ready"
    /\ translate_string(t_text, t_outcome).raised
    /\ t_result' = translate_string(t_text, t_outcome)
    /\ t_pc' = "raised"
    /\ UNCHANGED <<inputCat, backend, config, outFile, progFile, pc, po,
                   starting_index, i, forms, called, classified, formCalls,
                   writes, prevEnd, prevOut, prevCalled, stored, written,
                   t_text, t_outcome>>

NextTranslate == TranslateReturns \/ TranslateRaises

SpecTranslate == InitTranslate /\ [][NextTranslate]_vars

----------------------------------------------------------------------------
(* Claims about resuming (SpecResume) *)

Alive == pc \in Running \cup {"done"}

\* C1: a run is killed, the next run starts from the progress file the killed
\* run left and reaches Done; every entry whose translation the killed run
\* had written to the output catalog still carries it in the output catalog.
\* (Stated for the deterministic backend, with which translating an entry
\* again cannot by itself change its translation.)
C1_KillLosesOnlyInFlight ==
    (pc = "done" /\ prevEnd = "killed" /\ prevOut.exists
         /\ backend = "upper") =>
        /\ outFile.exists
        /\ \A j \in 1..Len(inputCat) :
               prevOut.content[j] # inputCat[j] =>
                   outFile.content[j] = prevOut.content[j]

\* C2: two runs in succession both reach Done, over the same input, with the
\* deterministic backend, the second starting from the progress file of the
\* first; the output catalog after the second equals the one after the first.
C2_Idempotent ==
    (pc = "done" /\ prevEnd = "done" /\ backend = "upper") =>
        outFile = prevOut

\* C3: in a run that resumes after a kill, at most one of the entries the
\* killed run had invoked the backend for has the backend invoked for it again.
C3_ResumeReprocessesAtMostOne ==
    prevEnd = "killed" => Cardinality(called \cap prevCalled) <= 1

\* C4: a run that follows a run that reached Done, and so loads its progress
\* file, invokes the backend for no entry.
C4_FinishedRunReportsCompletion ==
    prevEnd = "done" => called = {}

----------------------------------------------------------------------------
(* Claims about one run (Spec) *)

\* C5: in a run that loaded stored progress P, an entry with index below P
\* is not classified, the backend is not invoked for it, and its targets
\* (msgstr and every msgstr_plural form) are as they were loaded.
C5_BelowProgressUntouched ==
    Alive =>
        \A j \in 0..(starting_index - 1) :
            j < Len(po) =>
                /\ j \notin classified
                /\ j \notin called
                /\ po[j + 1].msgstr = inputCat[j + 1].msgstr
                /\ po[j + 1].msgstr_plural = inputCat[j + 1].msgstr_plural

\* a resumed run that skipped at least one entry and went through the catalog
C5_Witness == pc = "done" /\ starting_index >= 1 /\ called # {}

\* the backend signalled a rate limit for the singular entry in hand
RateLimitedSingular ==
    /\ formCalls # <<>>
    /\ formCalls[1].form = -1
    /\ formCalls[1].kind = "ratelimit"

\* C8: a rate limit on a singular eligible entry: the backend is invoked
\* once for it (no retry), its msgstr becomes its msgid, the run does not end
\* there, the progress file and the output catalog are written for the
\* entry, and the loop stands at the next entry, able to go on.
C8_RateLimitFallsBack ==
    RateLimitedSingular =>
        /\ Len(formCalls) = 1
        /\ pc # "crashed"
        /\ pc \in {"save_open", "save_dump", "po_save"} =>
               po[i + 1].msgstr = inputCat[i + 1].msgid
        /\ pc = "loop" =>
               /\ i >= 1
               /\ po[i].msgstr = inputCat[i].msgid
               /\ progFile = File(JsonDump(i - 1))
               /\ outFile.exists
               /\ outFile.content[i].msgstr = inputCat[i].msgid
               /\ ENABLED (Finish \/ SkipEntry \/ BeginEntry)

\* the entry after a rate-limited one is about to be classified
C8_Witness == RateLimitedSingular /\ pc = "loop" /\ i < Len(po)

\* the plural indices of entry e whose source text does not start with '#'
TranslatableForms(e) ==
    LET Kept(k) ==
            ~StartsWithHash(Strip(IF k = 0 THEN e.msgid ELSE e.msgid_plural))
    IN  SelectSeq(SortedKeys(e), Kept)

\* the plural indices the backend was invoked for, for the entry in hand
InvokedForms == [n \in 1..Len(formCalls) |-> formCalls[n].form]

InPluralEntry ==
    /\ pc \in {"plural", "save_open", "save_dump", "po_save"}
    /\ inputCat[i + 1].msgid_plural # <<>>

\* every invocation made for the plural entry in hand used the source text
\* of its index and its result is stored at that index; every other index
\* holds what was loaded
FormsStored ==
    /\ \A n \in 1..Len(formCalls) :
           /\ formCalls[n].text =
                  (IF formCalls[n].form = 0 THEN inputCat[i + 1].msgid
                   ELSE inputCat[i + 1].msgid_plural)
           /\ po[i + 1].msgstr_plural[formCalls[n].form] = formCalls[n].ret
    /\ \A k \in DOMAIN po[i + 1].msgstr_plural :
           (\A n \in 1..Len(formCalls) : formCalls[n].form # k) =>
               po[i + 1].msgstr_plural[k] = inputCat[i + 1].msgstr_plural[k]

\* C10 as stated: when the forms of an eligible plural entry are done, the
\* backend has been invoked exactly once per index of msgstr_plural, in
\* ascending order, index 0 with msgid and the others with msgid_plural,
\* and each result is stored at its index only.
C10_EveryIndexInvoked ==
    (InPluralEntry /\ pc # "plural") =>
        /\ InvokedForms = SortedKeys(inputCat[i + 1])
        /\ FormsStored

\* C10 amended: the same, over the indices whose source text does not start
\* with '#' after trimming; a skipped index keeps its loaded value.  While
\* the forms are being iterated, the invocations made so far and those still
\* to come make up exactly that sequence.
C10_TranslatableIndicesInvoked ==
    InPluralEntry =>
        /\ LET Kept(k) ==
                   ~StartsWithHash(Strip(IF k = 0 THEN inputCat[i + 1].msgid
                                         ELSE inputCat[i + 1].msgid_plural))
           IN  InvokedForms \o SelectSeq(forms, Kept)
                   = TranslatableForms(inputCat[i + 1])
        /\ pc # "plural" => forms = <<>>
        /\ FormsStored

\* a plural entry is done with one form translated and one form skipped
C10_Witness ==
    /\ InPluralEntry
    /\ pc = "po_save"
    /\ Len(formCalls) = 1
    /\ Cardinality(DOMAIN po[i + 1].msgstr_plural) = 2

----------------------------------------------------------------------------
(* Claims about translate_string (SpecTranslate) *)

HasLetter(s) == \E n \in 1..Len(s) : IsLetter(s[n])

\* C6: for a backend response, translate_string returns the original text
\* if the response contains, case-insensitively, 'no need to be corrected'
\* or 'reference to', or contains no letter character (ASCII or not) at
\* all; otherwise it returns the trimmed response.
C6_ValidationByLetters ==
    (t_pc # "ready" /\ t_outcome.kind = "ok") =>
        t_result =
            (IF \/ Contains(Lower(t_outcome.content), NoNeedPhrase)
                \/ Contains(Lower(t_outcome.content), ReferencePhrase)
                \/ ~HasLetter(t_outcome.content)
             THEN Returned(t_text)
             ELSE Returned(Strip(t_outcome.content)))

\* C7: translate_string never raises: whatever the backend does, it returns
\* a string, and on a rate limit or another backend error the original text.
C7_NeverRaises ==
    t_pc # "ready" =>
        /\ ~t_result.raised
        /\ t_outcome.kind \in {"ratelimit", "openai_error"} =>
               t_result.value = t_text

----------------------------------------------------------------------------
(* Claims about the classifier (SpecClassify) *)

\* '%' followed only by letters and nothing else
BarePlaceholder(s) ==
    s # <<>> /\ s[1] = "%" /\ \A n \in 2..Len(s) : IsAsciiLetter(s[n])

\* the entries C9 says are never sent to the backend
C9_Skipped(msgid) ==
    \/ msgid = <<>>
    \/ StartsWithHash(Strip(msgid))
    \/ ~HasLetter(msgid)
    \/ BarePlaceholder(msgid)

\* C9: when a run has gone through the catalog, the backend was invoked for
\* no entry at or after the starting index whose msgid is empty, begins with
\* '#' after trimming, has no letter, or is '%' followed only by letters;
\* and it was invoked for every other entry at or after the starting index.
C9_Classification ==
    pc = "done" =>
        \A j \in starting_index..(Len(po) - 1) :
            (j \in called) <=> ~C9_Skipped(po[j + 1].msgid)


----------------------------------------------------------------------------
(* SpecProgress: save_progress and load_progress on a progress file that   *)
(* is absent, empty, or holds any index                                    *)

ProgressFiles ==
    {NoFile, File(<<>>)} \cup {File(JsonDump(n)) : n \in 0..MaxIndex}

InitProgress ==
    /\ inputCat = <<>>
    /\ backend = "upper"
    /\ config = Config(S_Key, S_French, S_Jobs, TRUE)
    /\ outFile = NoFile
    /\ progFile \in ProgressFiles
    /\ pc = "p_ready"
    /\ po = <<>>
    /\ starting_index = 0
    /\ i = 0
    /\ forms = <<>>
    /\ called = {}
    /\ classified = {}
    /\ formCalls = <<>>
    /\ prevEnd = "none"
    /\ prevOut = NoFile
    /\ prevCalled = {}
    /\ writes = <<>>
    /\ stored = -1
    /\ written = -1
    /\ HarnessOff

\* save_progress(progress_path, n): open(progress_path, 'w')
P_SaveOpen ==
    /\ pc \in {"p_ready", "p_saved", "p_loaded"}
    /\ \E n \in 0..MaxIndex : i' = n
    /\ progFile' = File(<<>>)
    /\ pc' = "p_open"
    /\ UNCHANGED <<inputCat, backend, config, outFile, po, starting_index,
                   forms, called, classified, formCalls, writes, prevEnd,
                   prevOut, prevCalled, stored, written, harnessVars>>

\* save_progress: json.dump({"index": current_index}, file), and the close
P_SaveDump ==
    /\ pc = "p_open"
    /\ progFile' = File(JsonDump(i))
    /\ written' = i
    /\ pc' = "p_saved"
    /\ UNCHANGED <<inputCat, backend, config, outFile, po, starting_index, i,
                   forms, called, classified, formCalls, writes, prevEnd,
                   prevOut, prevCalled, stored, harnessVars>>

\* progress = load_progress(path); starting_index = progress.get("index", 0)
P_Load ==
    /\ pc \in {"p_ready", "p_saved"}
    /\ LET progress == load_progress(progFile)
       IN  IF progress.raised
           THEN pc' = "p_crashed" /\ UNCHANGED starting_index
           ELSE pc' = "p_loaded" /\ starting_index' = progress.index
    /\ UNCHANGED <<inputCat, backend, config, outFile, progFile, po, i,
                   forms, called, classified, formCalls, writes, prevEnd,
                   prevOut, prevCalled, stored, written, harnessVars>>

NextProgress == P_SaveOpen \/ P_SaveDump \/ P_Load

SpecProgress == InitProgress /\ [][NextProgress]_vars

----------------------------------------------------------------------------
(* SpecPath: the output file name derived from any short input path, and   *)
(* the save of the catalog under that name                                 *)

S_DotPo == <<".", "p", "o">>
S_TranslatedPo ==
    <<"_","t","r","a","n","s","l","a","t","e","d",".","p","o">>

\* s.endswith(suffix)
EndsWith(s, suffix) ==
    /\ Len(s) >= Len(suffix)
    /\ SubSeq(s, Len(s) - Len(suffix) + 1, Len(s)) = suffix

\* s.replace(old, new): every non-overlapping occurrence, from the left
RECURSIVE Replace(_, _, _)
Replace(s, old, new) ==
    IF Len(s) < Len(old) THEN s
    ELSE IF SubSeq(s, 1, Len(old)) = old
    THEN new \o Replace(SubSeq(s, Len(old) + 1, Len(s)), old, new)
    ELSE <<Head(s)>> \o Replace(Tail(s), old, new)

translated_file_name_InPlace(po_file_path) == po_file_path

\* the if/else that derives translated_file_name from po_file_path
translated_file_name(po_file_path) ==
    IF EndsWith(po_file_path, S_DotPo)
    THEN Replace(po_file_path, S_DotPo, S_TranslatedPo)
    ELSE po_file_path \o S_TranslatedPo

PathAlphabet == {"a", "/", ".", "p", "o"}
Paths == SeqsUpTo(PathAlphabet, MaxPathLen) \ {<<>>}

\* the catalog in memory after its first entry was translated
S_Translated == [Singular(S_Hello) EXCEPT !.msgstr = Upper(S_Hello)]

InitPath ==
    /\ inputCat = <<Singular(S_Hello)>>
    /\ backend = "upper"
    /\ config = Config(S_Key, S_French, S_Jobs, TRUE)
    /\ outFile = NoFile
    /\ progFile = NoFile
    /\ pc = "off"
    /\ po = <<S_Translated>>
    /\ starting_index = 0
    /\ i = 0
    /\ forms = <<>>
    /\ called = {}
    /\ classified = {}
    /\ formCalls = <<>>
    /\ prevEnd = "none"
    /\ prevOut = NoFile
    /\ prevCalled = {}
    /\ writes = <<>>
    /\ stored = -1
    /\ written = -1
    /\ t_text \in Paths
    /\ t_outcome = RateLimit
    /\ t_result = Returned(<<>>)
    /\ t_pc = "path_ready"

\* translated_file_name is derived from the path in t_text
DerivePath ==
    /\ t_pc = "path_ready"
    /\ t_result' = Returned(translated_file_name(t_text))
    /\ t_pc' = "path_derived"
    /\ UNCHANGED <<inputCat, backend, config, outFile, progFile, pc, po,
                   starting_index, i, forms, called, classified, formCalls,
                   writes, prevEnd, prevOut, prevCalled, stored, written,
                   t_text, t_outcome>>

\* po.save(translated_file_name): the file of that name is replaced, be it
\* the input catalog
SaveAtPath ==
    /\ t_pc = "path_derived"
    /\ IF t_result.value = t_text
       THEN inputCat' = po /\ UNCHANGED outFile
       ELSE outFile' = File(po) /\ UNCHANGED inputCat
    /\ t_pc' = "path_saved"
    /\ UNCHANGED <<backend, config, progFile, pc, po, starting_index, i,
                   forms, called, classified, formCalls, writes, prevEnd,
                   prevOut, prevCalled, stored, written, t_text, t_outcome,
                   t_result>>

NextPath == DerivePath \/ SaveAtPath

SpecPath == InitPath /\ [][NextPath]_vars

----------------------------------------------------------------------------
(* Claims about the catalog when a run is done *)

\* the entries a finished run was to translate
DoneEligible ==
    {j \in 0..(Len(po) - 1) : j >= starting_index /\ Eligible(po[j + 1])}

\* `target` is the source text or a response the validation accepts
Filled(target, source) ==
    /\ target # <<>>
    /\ \/ target = source
       \/ \E o \in BackendOutcomes(backend, source) :
              /\ o.kind = "ok"
              /\ target = Strip(o.content)
              /\ ~InvalidTranslation(target)

\* C11 as stated: when the run is done, every target of every eligible
\* entry at or above the starting index (msgstr, or every form of
\* msgstr_plural) is non-empty and is the accepted response for its source
\* text or that source text.
C11_EveryTargetFilled ==
    pc = "done" =>
        \A j \in DoneEligible :
            IF po[j + 1].msgid_plural = <<>>
            THEN Filled(po[j + 1].msgstr, po[j + 1].msgid)
            ELSE \A k \in DOMAIN po[j + 1].msgstr_plural :
                     Filled(po[j + 1].msgstr_plural[k],
                            SourceText(po[j + 1], k))

\* C11 amended: the same for msgstr and for every plural form whose source
\* text does not start with '#' after trimming; a form whose source text
\* does keeps the value it was loaded with.
C11_TranslatableTargetsFilled ==
    pc = "done" =>
        \A j \in DoneEligible :
            IF po[j + 1].msgid_plural = <<>>
            THEN Filled(po[j + 1].msgstr, po[j + 1].msgid)
            ELSE \A k \in DOMAIN po[j + 1].msgstr_plural :
                     IF StartsWithHash(Strip(SourceText(po[j + 1], k)))
                     THEN po[j + 1].msgstr_plural[k] =
                              inputCat[j + 1].msgstr_plural[k]
                     ELSE Filled(po[j + 1].msgstr_plural[k],
                                 SourceText(po[j + 1], k))

\* a finished run that kept the source text for one form of a plural entry
\* and the response for another
C11_Witness ==
    /\ pc = "done"
    /\ backend = "remote"
    /\ \E j \in DoneEligible :
           /\ po[j + 1].msgid_plural # <<>>
           /\ po[j + 1].msgstr_plural[0] = po[j + 1].msgid
           /\ po[j + 1].msgstr_plural[1] = Upper(po[j + 1].msgid_plural)


----------------------------------------------------------------------------
(* Claims about the startup checks *)

Blank(s) == \A n \in 1..Len(s) : s[n] \in Whitespace

\* the API credential is missing, the target language or the context is
\* empty, or the input file does not exist
BadConfiguration(c) ==
    \/ c.api_key = <<>>
    \/ Blank(c.target_language)
    \/ Blank(c.context)
    \/ ~c.po_exists

\* C12: a run started with a configuration error exits early: the backend
\* is not invoked and the input catalog, the output catalog and the
\* progress file are what they were.
C12_ConfigErrorExitsEarly ==
    [][(pc \in Dead /\ BadConfiguration(config')) =>
           /\ pc' = "aborted"
           /\ called' = {}
           /\ formCalls' = <<>>
           /\ UNCHANGED <<inputCat, outFile, progFile>>]_vars

\* a run given an empty context has exited, and the files an earlier run
\* wrote are there
C12_Witness ==
    /\ pc = "aborted"
    /\ config.api_key # <<>>
    /\ ~Blank(config.target_language)
    /\ config.context = <<>>
    /\ config.po_exists
    /\ outFile.exists
    /\ progFile.exists


----------------------------------------------------------------------------
(* Claims about the progress file *)

\* C13: a load that follows save(N) yields N as the starting index, whatever
\* the file held before the save, and never fails; a load with no progress
\* file yields 0.
C13_ProgressRoundTrip ==
    /\ (pc = "p_loaded" /\ written >= 0) => starting_index = written
    /\ (pc = "p_loaded" /\ ~progFile.exists) => starting_index = 0
    /\ pc = "p_crashed" => written = -1

\* an index of two digits has been saved and loaded
C13_Witness ==
    /\ pc = "p_loaded"
    /\ written >= 10
    /\ starting_index = written


----------------------------------------------------------------------------
(* Claims about the checkpoint of an entry *)

\* the index of the entry the recorded writes belong to
Checkpointed == IF pc = "loop" THEN i - 1 ELSE i

\* the invocations an entry is due: one for msgstr, or one per plural index
\* in `due`
InvokedFor(e, due) ==
    IF e.msgid_plural = <<>> THEN InvokedForms = <<-1>>
    ELSE InvokedForms = due

\* the output catalog holds entry `out` either as loaded or with msgstr, or
\* every plural form among `due`, set
AllOrNothing(out, in, due) ==
    \/ out = in
    \/ /\ in.msgid_plural = <<>>
       /\ out.msgstr # <<>>
    \/ /\ in.msgid_plural # <<>>
       /\ \A k \in DOMAIN in.msgstr_plural :
              IF \E n \in 1..Len(due) : due[n] = k
              THEN out.msgstr_plural[k] # <<>>
              ELSE out.msgstr_plural[k] = in.msgstr_plural[k]

CheckpointOrder(Due(_)) ==
    /\ writes \in {<<>>, <<"progress">>, <<"progress", "catalog">>}
    /\ writes # <<>> =>
           /\ pc \in {"save_dump", "po_save", "loop"}
           /\ Checkpointed >= starting_index
           /\ Eligible(inputCat[Checkpointed + 1])
           /\ InvokedFor(inputCat[Checkpointed + 1],
                         Due(inputCat[Checkpointed + 1]))
    /\ (pc \in {"save_dump", "po_save"}) = (writes = <<"progress">>)
    /\ (/\ pc = "loop"
        /\ i >= 1
        /\ i - 1 >= starting_index
        /\ Eligible(inputCat[i])) => writes = <<"progress", "catalog">>
    /\ outFile.exists =>
           \A j \in 1..Len(inputCat) :
               AllOrNothing(outFile.content[j], inputCat[j], Due(inputCat[j]))

\* C14 as stated: for an eligible entry at or above the starting index the
\* progress file and then the output catalog are written, once each, and
\* only after the backend was invoked for every form of the entry; the
\* output catalog never holds an entry with only some of its forms updated.
C14_CheckpointAfterAllForms == CheckpointOrder(SortedKeys)

\* C14 amended: the same, the forms of a plural entry being those whose
\* source text does not start with '#' after trimming; a skipped form is
\* not invoked for and keeps in the output catalog the value it was loaded
\* with.
C14_CheckpointAfterTranslatableForms == CheckpointOrder(TranslatableForms)

\* both forms of a plural entry were invoked for, then the two files were
\* written, and the loop has moved on
C14_Witness ==
    /\ pc = "loop"
    /\ writes = <<"progress", "catalog">>
    /\ Len(formCalls) = 2
    /\ outFile.content[i].msgstr_plural[0] # <<>>
    /\ outFile.content[i].msgstr_plural[1] # <<>>


----------------------------------------------------------------------------
(* Claims about a classification skip *)

\* the loop is at an entry at or above the starting index that the
\* classifier skips
AtSkippedEntry ==
    /\ pc = "loop"
    /\ i < Len(po)
    /\ i >= starting_index
    /\ ~Eligible(po[i + 1])

\* C15: the step the loop takes at an entry the classifier skips leaves the
\* entry's targets, the progress file and the output catalog as they were,
\* invokes nothing, and leaves the loop at the next entry.
C15_SkipHasNoEffect ==
    [][(AtSkippedEntry /\ pc' # "killed") =>
           /\ pc' = "loop"
           /\ i' = i + 1
           /\ po' = po
           /\ called' = called
           /\ formCalls' = <<>>
           /\ writes' = <<>>
           /\ UNCHANGED <<inputCat, outFile, progFile, stored>>]_vars

\* an entry was skipped by the classifier and the loop is at the next one
C15_Witness ==
    /\ pc = "loop"
    /\ i >= 1
    /\ i < Len(po)
    /\ i - 1 >= starting_index
    /\ (i - 1) \in classified
    /\ ~Eligible(po[i])
    /\ po[i] = inputCat[i]


----------------------------------------------------------------------------
(* Claims about termination *)

\* a step of the loop stays in the run and visits at most the entry at i
InOrder ==
    /\ pc' \in Running \cup {"done"}
    /\ i' \in {i, i + 1}
    /\ \/ classified' = classified
       \/ i \notin classified /\ classified' = classified \cup {i}

\* C16: a run whose backend answers every call with an accepted response, a
\* rejected response, a rate limit or another backend error reaches Done;
\* none of these outcomes ends the run early; the loop visits the entries
\* in file order, each at most once, and at Done has visited every entry at
\* or above the starting index.
C16_RunReachesDone ==
    /\ [](pc \in Running => <>(pc = "done"))
    /\ [](pc = "done" =>
              classified = {j \in 0..(Len(po) - 1) : j >= starting_index})
    /\ [][(pc \in Running) => InOrder]_vars

\* a resumed run has finished although the backend failed or was refused
\* for one of its entries
C16_Witness ==
    /\ pc = "done"
    /\ backend = "faulty"
    /\ starting_index >= 1
    /\ \E j \in called : po[j + 1].msgstr = po[j + 1].msgid


----------------------------------------------------------------------------
(* Claims about the output path *)

\* C17: the output path is the input path with its '.po' extension, when
\* it ends with it, replaced by '_translated.po' and every other part
\* unchanged, and the input path followed by '_translated.po' otherwise.
C17_OnlyExtensionReplaced ==
    t_pc = "path_derived" =>
        t_result.value =
            (IF EndsWith(t_text, S_DotPo)
             THEN SubSeq(t_text, 1, Len(t_text) - Len(S_DotPo))
             ELSE t_text) \o S_TranslatedPo

\* C19: the derived output path differs from the input path, and saving
\* the catalog under it leaves the input catalog as it was.
C19_InputNeverWritten ==
    /\ t_pc \in {"path_derived", "path_saved"} => t_result.value # t_text
    /\ t_pc = "path_saved" =>
           /\ inputCat = <<Singular(S_Hello)>>
           /\ outFile = File(po)

\* the catalog a/a.po was saved as a/a_translated.po
C19_Witness ==
    /\ t_pc = "path_saved"
    /\ t_text = <<"a", "/", "a">> \o S_DotPo
    /\ t_result.value = <<"a", "/", "a">> \o S_TranslatedPo
    /\ outFile.exists


----------------------------------------------------------------------------
(* Claims about the values written to the progress file *)

\* the step dumps an index into the progress file
Dumps == progFile' # progFile /\ progFile'.content # <<>>

\* C18: over any sequence of runs, completed, crashed or killed, each value
\* written to the progress file is at least the value last stored there, is
\* greater than the value this run wrote before, and is the index of an
\* eligible entry of the catalog.
C18_ProgressNeverDecreases ==
    [][Dumps =>
           LET value == load_progress(progFile').index
           IN  /\ value >= stored
               /\ value > written
               /\ value \in 0..(Len(inputCat) - 1)
               /\ Eligible(inputCat[value + 1])]_vars

\* a run resumed from a stored index has written that index again
C18_Witness ==
    /\ pc = "po_save"
    /\ starting_index >= 1
    /\ written = starting_index
    /\ progFile = File(JsonDump(starting_index))

====
